---- MODULE Spec2Model ----
(***************************************************************************)
(* Model of the locale key synchronisation scripts of                      *)
(* apps/dokploy/public/locales: sync_all_keys.py and add_missing_keys.py.   *)
(*                                                                         *)
(* A file's content is its text, a sequence of one-character strings.  A    *)
(* Python dict is a sequence of entries [k, v] with distinct keys, in       *)
(* insertion order.  A JSON value is [t |-> "str" or "num", s |-> text].    *)
(***************************************************************************)
EXTENDS Naturals, Sequences, FiniteSets, TLC

(***************************************************************************)
(* Text helpers (Python str operations).                                    *)
(***************************************************************************)
SP == " "
TAB == "\t"
NL == "\n"
QUOTE == "\""
FourSpaces == <<SP, SP, SP, SP>>
Whitespace == {SP, TAB, NL}
Digits == {"0", "1", "2", "3", "4", "5", "6", "7", "8", "9"}

Min(a, b) == IF a <= b THEN a ELSE b

\* s[:n] of Python: the first n characters of s, or all of s when it is shorter.
Prefix(s, n) == SubSeq(s, 1, Min(n, Len(s)))

\* s.startswith(p) at position i (1-based).
StartsAt(s, p, i) ==
    /\ i + Len(p) - 1 <= Len(s)
    /\ \A j \in 1..Len(p) : s[i + j - 1] = p[j]

\* `c in s` for a character c.
Contains(s, c) == \E i \in 1..Len(s) : s[i] = c

\* "sep".join(parts)
RECURSIVE Join(_, _)
Join(parts, sep) ==
    IF Len(parts) = 0 THEN <<>>
    ELSE IF Len(parts) = 1 THEN parts[1]
    ELSE parts[1] \o sep \o Join(Tail(parts), sep)

\* s.split("\n"): the lines of s; a text without newline is one line.
RECURSIVE SplitFrom(_, _, _)
SplitFrom(s, i, cur) ==
    IF i > Len(s) THEN <<cur>>
    ELSE IF s[i] = NL THEN <<cur>> \o SplitFrom(s, i + 1, <<>>)
    ELSE SplitFrom(s, i + 1, Append(cur, s[i]))

SplitLines(s) == SplitFrom(s, 1, <<>>)

\* line.count("    "): the non-overlapping occurrences, scanned left to right.
RECURSIVE CountFrom(_, _, _)
CountFrom(s, p, i) ==
    IF i + Len(p) - 1 > Len(s) THEN 0
    ELSE IF StartsAt(s, p, i) THEN 1 + CountFrom(s, p, i + Len(p))
    ELSE CountFrom(s, p, i + 1)

Count(s, p) == CountFrom(s, p, 1)

\* line.replace(old, new, n): the first n occurrences of old, left to right.
RECURSIVE ReplaceFrom(_, _, _, _, _)
ReplaceFrom(s, old, new, n, i) ==
    IF i > Len(s) THEN <<>>
    ELSE IF n > 0 /\ StartsAt(s, old, i)
         THEN new \o ReplaceFrom(s, old, new, n - 1, i + Len(old))
    ELSE <<s[i]>> \o ReplaceFrom(s, old, new, n, i + 1)

Replace(s, old, new, n) == ReplaceFrom(s, old, new, n, 1)

\* line.strip() is non-empty: some character is not whitespace.
StripNonEmpty(s) == \E i \in 1..Len(s) : s[i] \notin Whitespace

(***************************************************************************)
(* Python dict operations on entry sequences.                               *)
(***************************************************************************)
HasKey(m, k) == \E i \in 1..Len(m) : m[i].k = k

Get(m, k) == m[CHOOSE i \in 1..Len(m) : m[i].k = k].v

Keys(m) == {m[i].k : i \in 1..Len(m)}

\* d[k] = v: an existing key keeps its position, a new key is appended.
DictSet(m, k, v) ==
    IF HasKey(m, k)
    THEN [i \in 1..Len(m) |-> IF m[i].k = k THEN [k |-> k, v |-> v] ELSE m[i]]
    ELSE Append(m, [k |-> k, v |-> v])

\* d.update(other): d[k] = v for each entry of other, in other's order.
RECURSIVE DictUpdate(_, _)
DictUpdate(m, other) ==
    IF Len(other) = 0 THEN m
    ELSE DictUpdate(DictSet(m, other[1].k, other[1].v), Tail(other))

(***************************************************************************)
(* json.dumps(data, ensure_ascii=False, indent=4) of a flat object.         *)
(***************************************************************************)
EncodeValue(v) == IF v.t = "str" THEN <<QUOTE>> \o v.s \o <<QUOTE>> ELSE v.s

EncodeItem(e) ==
    FourSpaces \o <<QUOTE>> \o e.k \o <<QUOTE>> \o <<":", SP>> \o EncodeValue(e.v)

JsonDumps(m) ==
    IF Len(m) = 0 THEN <<"{", "}">>
    ELSE <<"{", NL>>
         \o Join([i \in 1..Len(m) |-> EncodeItem(m[i])], <<",", NL>>)
         \o <<NL, "}">>

(***************************************************************************)
(* json.load of a text: [ok, map].  ok is FALSE where json raises           *)
(* JSONDecodeError.  Strings hold no escapes; a control character inside a  *)
(* string is an error, as in the strict decoder.                            *)
(***************************************************************************)
RECURSIVE SkipWs(_, _)
SkipWs(t, i) ==
    IF i <= Len(t) /\ t[i] \in Whitespace THEN SkipWs(t, i + 1) ELSE i

RECURSIVE StringEnd(_, _)
\* position of the closing quote of a string whose content starts at i, 0 if none
StringEnd(t, i) ==
    IF i > Len(t) THEN 0
    ELSE IF t[i] = QUOTE THEN i
    ELSE IF t[i] \in {TAB, NL} THEN 0
    ELSE StringEnd(t, i + 1)

RECURSIVE NumberEnd(_, _)
\* position after the digits that start at i
NumberEnd(t, i) ==
    IF i <= Len(t) /\ t[i] \in Digits THEN NumberEnd(t, i + 1) ELSE i

ParseFail == [ok |-> FALSE, map |-> <<>>]

\* a value at position i: [ok, v, next]
ParseValue(t, i) ==
    IF i > Len(t) THEN [ok |-> FALSE, v |-> [t |-> "str", s |-> <<>>], next |-> i]
    ELSE IF t[i] = QUOTE
         THEN LET e == StringEnd(t, i + 1)
              IN [ok |-> e # 0,
                  v |-> [t |-> "str", s |-> IF e = 0 THEN <<>> ELSE SubSeq(t, i + 1, e - 1)],
                  next |-> e + 1]
    ELSE IF t[i] \in Digits
         THEN LET e == NumberEnd(t, i)
              IN [ok |-> TRUE, v |-> [t |-> "num", s |-> SubSeq(t, i, e - 1)], next |-> e]
    ELSE [ok |-> FALSE, v |-> [t |-> "str", s |-> <<>>], next |-> i]

RECURSIVE ParseMembers(_, _, _)
\* the members of an object, position i at the first character of a key
ParseMembers(t, i, acc) ==
    LET key == ParseValue(t, i)
        colon == SkipWs(t, key.next)
        val == ParseValue(t, SkipWs(t, colon + 1))
        after == SkipWs(t, val.next)
        acc2 == DictSet(acc, key.v.s, val.v)
    IN  IF ~(key.ok /\ key.v.t = "str") THEN ParseFail
        ELSE IF ~(colon <= Len(t) /\ t[colon] = ":") THEN ParseFail
        ELSE IF ~val.ok THEN ParseFail
        ELSE IF after > Len(t) THEN ParseFail
        ELSE IF t[after] = "}"
             THEN IF SkipWs(t, after + 1) > Len(t)
                  THEN [ok |-> TRUE, map |-> acc2] ELSE ParseFail
        ELSE IF t[after] = ","
             THEN ParseMembers(t, SkipWs(t, after + 1), acc2)
        ELSE ParseFail

JsonLoad(t) ==
    LET open == SkipWs(t, 1)
        first == SkipWs(t, open + 1)
    IN  IF ~(open <= Len(t) /\ t[open] = "{") THEN ParseFail
        ELSE IF first > Len(t) THEN ParseFail
        ELSE IF t[first] = "}"
             THEN IF SkipWs(t, first + 1) > Len(t)
                  THEN [ok |-> TRUE, map |-> <<>>] ELSE ParseFail
        ELSE ParseMembers(t, first, <<>>)

(***************************************************************************)
(* dump_json of sync_all_keys.py: the text written for data over a file     *)
(* whose present content is original.                                       *)
(***************************************************************************)
DetectPrefixLen == 100

\* line 55: indent = "\t" if "\t" in original_content[:100] else "    "
DetectIndent(original) ==
    IF Contains(Prefix(original, DetectPrefixLen), TAB) THEN <<TAB>> ELSE FourSpaces

\* line 63: line.replace("    ", "\t", line.count("    ") // 4) if line.strip() else line
ConvertLine(line) ==
    IF StripNonEmpty(line)
    THEN Replace(line, FourSpaces, <<TAB>>, Count(line, FourSpaces) \div 4)
    ELSE line

\* lines 60-65
ConvertToTabs(formatted) ==
    LET lines == SplitLines(formatted)
    IN  Join([i \in 1..Len(lines) |-> ConvertLine(lines[i])], <<NL>>)

\* lines 48-68
DumpJson(original, data) ==
    LET formatted == JsonDumps(data)
    IN  (IF DetectIndent(original) = <<TAB>> THEN ConvertToTabs(formatted) ELSE formatted)
        \o <<NL>>

\* add_missing_keys.py, dump_json: always 4 spaces
DumpJsonPlain(data) == JsonDumps(data) \o <<NL>>

(***************************************************************************)
(* The locales directory: its entries, sorted as sorted(base_dir.iterdir()) *)
(* yields them, and the two file names main synchronises.                    *)
(***************************************************************************)
HIDDEN == <<".", "b", "a", "k">>
DE == <<"d", "e">>
EN == <<"e", "n">>
FR == <<"f", "r">>
SCRIPT == <<"s", "y", "n", "c", ".", "p", "y">>
TR == <<"t", "r">>

SortedEntries == <<HIDDEN, DE, EN, FR, SCRIPT, TR>>

IsDir(name) == name # SCRIPT

\* sorted(p for p in base_dir.iterdir() if p.is_dir())
LangDirs == SelectSeq(SortedEntries, IsDir)

DirNames == {LangDirs[i] : i \in 1..Len(LangDirs)}

\* main, lines 122-123
FileNames == <<"common.json", "settings.json">>

FileSet == {FileNames[i] : i \in 1..Len(FileNames)}

\* (variant of line 90 without the hidden-directory test)
IsSkippedDirEnOnly(lang_code) == lang_code = EN

\* line 90: lang_code == "en" or lang_code.startswith(".")
IsSkippedDir(lang_code) == lang_code = EN \/ lang_code[1] = "."

\* (variant of the comprehension of line 103 that takes the keys in reverse)
RECURSIVE MissingKeysReversed(_, _)
MissingKeysReversed(en, lang) ==
    IF Len(en) = 0 THEN <<>>
    ELSE MissingKeysReversed(Tail(en), lang)
         \o (IF HasKey(lang, en[1].k) THEN <<>> ELSE <<en[1]>>)

\* line 103: {k: en_data[k] for k in en_data if k not in lang_data}
RECURSIVE MissingKeys(_, _)
MissingKeys(en, lang) ==
    IF Len(en) = 0 THEN <<>>
    ELSE (IF HasKey(lang, en[1].k) THEN <<>> ELSE <<en[1]>>)
         \o MissingKeys(Tail(en), lang)

(***************************************************************************)
(* File contents a run can start from.                                      *)
(***************************************************************************)
Str(s) == [t |-> "str", s |-> s]
Num(s) == [t |-> "num", s |-> s]
Entry(k, v) == [k |-> <<k>>, v |-> v]
Q(s) == <<QUOTE>> \o s \o <<QUOTE>>

Absent == [exists |-> FALSE, text |-> <<>>]
File(text) == [exists |-> TRUE, text |-> text]

Hello == <<"H", "i">>
Placeholder == <<"{", "{", "n", "}", "}">>

\* en files: 4 spaces, and tab-indented with a number and the keys in another order
RefSpaces == JsonDumps(<<Entry("a", Str(Hello)), Entry("b", Str(Placeholder))>>) \o <<NL>>
RefTabs ==
    <<"{", NL, TAB>> \o Q(<<"b">>) \o <<":", SP, "7", ",", NL, TAB>>
    \o Q(<<"a">>) \o <<":", SP>> \o Q(Hello) \o <<NL, "}", NL>>

\* target files
Malformed == <<"{">> \o Q(<<"a">>) \o <<":", SP>> \o Q(<<"T">>) \o <<",", "}">>
TabPartial ==
    <<"{", NL, TAB>> \o Q(<<"a">>) \o <<":", SP>> \o Q(<<"T">>) \o <<NL, "}", NL>>
TabComplete ==
    <<"{", NL, TAB>> \o Q(<<"b">>) \o <<":", SP>> \o Q(<<"U">>) \o <<",", NL, TAB>>
    \o Q(<<"a">>) \o <<":", SP>> \o Q(<<"T">>) \o <<NL, "}", SP, NL>>
\* tab-indented, the value padded with 28 spaces
Padding == [i \in 1..28 |-> SP]
TabPadded ==
    <<"{", NL, TAB>> \o Q(<<"a">>) \o <<":", SP>> \o Q(<<"T">> \o Padding) \o <<NL, "}", NL>>
SpacesComplete == JsonDumps(<<Entry("a", Str(<<"T">>)), Entry("b", Str(<<"U">>))>>) \o <<NL>>
CompactPartial == <<"{">> \o Q(<<"c">>) \o <<":">> \o Q(<<"U">>) \o <<"}", SP, SP, NL>>
EmptyObject == <<"{", "}", NL>>

RefCommonChoices == {Absent, File(RefSpaces), File(RefTabs), File(Malformed)}
RefSettingsChoices == {Absent, File(RefSpaces)}
CommonChoices ==
    {Absent, File(Malformed), File(TabPartial), File(TabComplete), File(TabPadded),
     File(SpacesComplete), File(CompactPartial), File(EmptyObject)}
SettingsChoices == {Absent, File(TabPartial), File(SpacesComplete)}

MaxRuns == 2

(***************************************************************************)
(* State.                                                                   *)
(***************************************************************************)
VARIABLES
    fs,          \* fs[dir][filename]: [exists, text]
    script,      \* the script of the current or last run
    run,         \* runs started so far
    pc,          \* "idle", "call", "loop", "report"
    fileIdx,     \* index in FileNames of the sync_file call in progress
    dirIdx,      \* index in LangDirs of the loop of sync_file
    en_data,     \* sync_file's en_data (add_missing_keys: main's en_data)
    source,      \* add_missing_keys: main's source
    total_added, \* sync_file's total_added
    totals,      \* main's total_common, total_settings
    grand_total, \* the total main prints last (line 129)
    success_count, \* add_ai_keys: main's success_count
    error_count, \* add_ai_keys: main's error_count
    returned,    \* add_ai_keys, this run, per dir: what add_keys_to_file returned
    exitStatus,  \* of the last finished run: 0, or 1 (uncaught exception)
    fsInit,      \* fs before the first run
    fs0,         \* fs when the current run started
    outcome,     \* this run, per (dir, filename): what sync_file did with it
    added,       \* this run, per (dir, filename): the count printed for it
    dumped,      \* this run, per (dir, filename): the data handed to dump_json
    opens        \* this run, per (dir, filename): opens for reading and writing

vars == <<fs, script, run, pc, fileIdx, dirIdx, en_data, source, total_added, totals,
          grand_total, success_count, error_count, returned, exitStatus, fsInit, fs0, outcome, added, dumped, opens>>

\* add_keys_to_file has not been called for the directory
NotCalled == [called |-> FALSE, success |-> FALSE, added_count |-> 0, message |-> ""]

PerFile(x) == [d \in DirNames |-> [f \in FileSet |-> x]]

Init ==
    /\ \E rc \in RefCommonChoices, rs \in RefSettingsChoices,
          dc \in CommonChoices, ds \in SettingsChoices,
          fc \in CommonChoices, fst \in SettingsChoices :
          fs = [d \in DirNames |->
                 [f \in FileSet |->
                    IF d = EN THEN (IF f = "common.json" THEN rc ELSE rs)
                    ELSE IF d = DE THEN (IF f = "common.json" THEN dc ELSE ds)
                    ELSE IF d = FR THEN (IF f = "common.json" THEN fc ELSE fst)
                    ELSE IF d = TR
                    THEN (IF f = "common.json" THEN File(SpacesComplete) ELSE Absent)
                    ELSE (IF f = "common.json" THEN File(EmptyObject) ELSE Absent)]]
    /\ script = "none"
    /\ run = 0
    /\ pc = "idle"
    /\ fileIdx = 0
    /\ dirIdx = 0
    /\ en_data = <<>>
    /\ source = <<>>
    /\ total_added = 0
    /\ totals = [f \in FileSet |-> 0]
    /\ grand_total = 0
    /\ success_count = 0
    /\ error_count = 0
    /\ returned = [d \in DirNames |-> NotCalled]
    /\ exitStatus = 0
    /\ fsInit = fs
    /\ fs0 = fs
    /\ outcome = PerFile("unprocessed")
    /\ added = PerFile(0)
    /\ dumped = PerFile(<<>>)
    /\ opens = PerFile([r |-> 0, w |-> 0])

filename == FileNames[fileIdx]
lang_code == LangDirs[dirIdx]
file_path == fs[lang_code][filename]

Opened(o, d, f, mode) ==
    [o EXCEPT ![d][f] = IF mode = "r" THEN [@ EXCEPT !.r = @ + 1]
                        ELSE [@ EXCEPT !.w = @ + 1]]

\* an uncaught exception ends the process with a traceback and status 1
Crash ==
    /\ pc' = "idle"
    /\ exitStatus' = 1

\* a script is started on the directory as the last run left it
StartProcess(name) ==
    /\ pc = "idle"
    /\ run < MaxRuns
    /\ run' = run + 1
    /\ script' = name
    /\ pc' = "call"
    /\ dirIdx' = 0
    /\ en_data' = <<>>
    /\ source' = <<>>
    /\ total_added' = 0
    /\ totals' = [f \in FileSet |-> 0]
    /\ grand_total' = 0
    /\ success_count' = 0
    /\ error_count' = 0
    /\ returned' = [d \in DirNames |-> NotCalled]
    /\ fs0' = fs
    /\ outcome' = PerFile("unprocessed")
    /\ added' = PerFile(0)
    /\ dumped' = PerFile(<<>>)
    /\ opens' = PerFile([r |-> 0, w |-> 0])
    /\ UNCHANGED <<fs, fsInit, exitStatus>>

(***************************************************************************)
(* sync_all_keys.py                                                         *)
(***************************************************************************)
\* main starts (lines 118-122): the first sync_file call is about to run
Main ==
    /\ StartProcess("sync_all_keys")
    /\ fileIdx' = 1

\* sync_file returns n to main, which calls sync_file for the next file name
\* or goes on to its report
ReturnToMain(n) ==
    /\ totals' = [totals EXCEPT ![filename] = n]
    /\ IF fileIdx < Len(FileNames)
       THEN /\ fileIdx' = fileIdx + 1
            /\ pc' = "call"
       ELSE /\ fileIdx' = fileIdx
            /\ pc' = "report"

\* (variant of lines 74-77 that raises instead of returning 0)
SyncFileNoReferenceAbort ==
    /\ script = "sync_all_keys" /\ pc = "call"
    /\ ~fs[EN][filename].exists
    /\ Crash
    /\ UNCHANGED <<fs, script, run, fileIdx, dirIdx, en_data, source, total_added, totals,
                   grand_total, success_count, error_count, returned, fsInit, fs0, outcome, added, dumped, opens>>

\* lines 74-77: the en file does not exist: print, return 0
SyncFileNoReference ==
    /\ script = "sync_all_keys" /\ pc = "call"
    /\ ~fs[EN][filename].exists
    /\ ReturnToMain(0)
    /\ UNCHANGED <<fs, script, run, dirIdx, en_data, source, total_added, exitStatus,
                   grand_total, success_count, error_count, returned, fsInit, fs0, outcome, added, dumped, opens>>

\* lines 79-85: en_data is loaded, the loop starts
SyncFileLoadReference ==
    /\ script = "sync_all_keys" /\ pc = "call"
    /\ fs[EN][filename].exists
    /\ JsonLoad(fs[EN][filename].text).ok
    /\ en_data' = JsonLoad(fs[EN][filename].text).map
    /\ total_added' = 0
    /\ dirIdx' = 1
    /\ pc' = "loop"
    /\ opens' = Opened(opens, EN, filename, "r")
    /\ UNCHANGED <<fs, script, run, fileIdx, source, totals, exitStatus, grand_total, success_count, error_count, returned, fsInit, fs0,
                   outcome, added, dumped>>

\* line 79: json.load raises on the en file
SyncFileReferenceError ==
    /\ script = "sync_all_keys" /\ pc = "call"
    /\ fs[EN][filename].exists
    /\ ~JsonLoad(fs[EN][filename].text).ok
    /\ Crash
    /\ opens' = Opened(opens, EN, filename, "r")
    /\ UNCHANGED <<fs, script, run, fileIdx, dirIdx, en_data, source, total_added, totals,
                   grand_total, success_count, error_count, returned, fsInit, fs0, outcome, added, dumped>>

InLoop == script = "sync_all_keys" /\ pc = "loop" /\ dirIdx <= Len(LangDirs)

\* lines 90-91: en and hidden directories
LoopSkipDir ==
    /\ InLoop
    /\ IsSkippedDir(lang_code)
    /\ dirIdx' = dirIdx + 1
    /\ UNCHANGED <<fs, script, run, pc, fileIdx, en_data, source, total_added, totals,
                   exitStatus, grand_total, success_count, error_count, returned, fsInit, fs0, outcome, added, dumped, opens>>

\* (variant of lines 93-97 that returns instead of continuing)
LoopSkipMissingReturn ==
    /\ InLoop
    /\ ~IsSkippedDir(lang_code)
    /\ ~file_path.exists
    /\ ReturnToMain(total_added)
    /\ outcome' = [outcome EXCEPT ![lang_code][filename] = "skipped"]
    /\ UNCHANGED <<fs, script, run, dirIdx, en_data, source, total_added,
                   exitStatus, grand_total, success_count, error_count, returned, fsInit, fs0, added, dumped, opens>>

\* lines 93-97: the directory has no such file
LoopSkipMissing ==
    /\ InLoop
    /\ ~IsSkippedDir(lang_code)
    /\ ~file_path.exists
    /\ dirIdx' = dirIdx + 1
    /\ outcome' = [outcome EXCEPT ![lang_code][filename] = "skipped"]
    /\ UNCHANGED <<fs, script, run, pc, fileIdx, en_data, source, total_added, totals,
                   exitStatus, grand_total, success_count, error_count, returned, fsInit, fs0, added, dumped, opens>>

\* line 100: json.load raises on the target file; nothing catches it
LoopLoadError ==
    /\ InLoop
    /\ ~IsSkippedDir(lang_code)
    /\ file_path.exists
    /\ ~JsonLoad(file_path.text).ok
    /\ Crash
    /\ outcome' = [outcome EXCEPT ![lang_code][filename] = "load_error"]
    /\ opens' = Opened(opens, lang_code, filename, "r")
    /\ UNCHANGED <<fs, script, run, fileIdx, dirIdx, en_data, source, total_added, totals,
                   grand_total, success_count, error_count, returned, fsInit, fs0, added, dumped>>

\* (variant of lines 106-113 that calls dump_json whether or not keys are missing)
LoopNoChangeRewrite ==
    /\ InLoop
    /\ ~IsSkippedDir(lang_code)
    /\ file_path.exists
    /\ JsonLoad(file_path.text).ok
    /\ MissingKeys(en_data, JsonLoad(file_path.text).map) = <<>>
    /\ fs' = [fs EXCEPT ![lang_code][filename] =
                 File(DumpJson(file_path.text, JsonLoad(file_path.text).map))]
    /\ dirIdx' = dirIdx + 1
    /\ outcome' = [outcome EXCEPT ![lang_code][filename] = "no_change"]
    /\ opens' = Opened(Opened(Opened(opens, lang_code, filename, "r"),
                              lang_code, filename, "r"), lang_code, filename, "w")
    /\ UNCHANGED <<script, run, pc, fileIdx, en_data, source, total_added, totals,
                   exitStatus, grand_total, success_count, error_count, returned, fsInit, fs0, added, dumped>>

\* lines 100-113 with no missing key: nothing is written
LoopNoChange ==
    /\ InLoop
    /\ ~IsSkippedDir(lang_code)
    /\ file_path.exists
    /\ JsonLoad(file_path.text).ok
    /\ MissingKeys(en_data, JsonLoad(file_path.text).map) = <<>>
    /\ dirIdx' = dirIdx + 1
    /\ outcome' = [outcome EXCEPT ![lang_code][filename] = "no_change"]
    /\ opens' = Opened(opens, lang_code, filename, "r")
    /\ UNCHANGED <<fs, script, run, pc, fileIdx, en_data, source, total_added, totals,
                   exitStatus, grand_total, success_count, error_count, returned, fsInit, fs0, added, dumped>>

\* (variant of line 111 that assigns the count instead of adding it)
LoopMergeWriteLastCount ==
    /\ InLoop
    /\ ~IsSkippedDir(lang_code)
    /\ file_path.exists
    /\ JsonLoad(file_path.text).ok
    /\ LET lang_data == JsonLoad(file_path.text).map
           missing_keys == MissingKeys(en_data, lang_data)
       IN  /\ missing_keys # <<>>
           /\ fs' = [fs EXCEPT ![lang_code][filename] =
                        File(DumpJson(file_path.text, DictUpdate(lang_data, missing_keys)))]
           /\ dumped' = [dumped EXCEPT ![lang_code][filename] =
                            DictUpdate(lang_data, missing_keys)]
           /\ added' = [added EXCEPT ![lang_code][filename] = Len(missing_keys)]
           /\ total_added' = Len(missing_keys)
    /\ dirIdx' = dirIdx + 1
    /\ outcome' = [outcome EXCEPT ![lang_code][filename] = "written"]
    /\ opens' = Opened(Opened(Opened(opens, lang_code, filename, "r"),
                              lang_code, filename, "r"), lang_code, filename, "w")
    /\ UNCHANGED <<script, run, pc, fileIdx, en_data, source, totals, exitStatus, grand_total, success_count, error_count, returned, fsInit, fs0>>

\* (variant of lines 108-109 that dumps the missing keys alone)
LoopMergeWriteMissingOnly ==
    /\ InLoop
    /\ ~IsSkippedDir(lang_code)
    /\ file_path.exists
    /\ JsonLoad(file_path.text).ok
    /\ LET lang_data == JsonLoad(file_path.text).map
           missing_keys == MissingKeys(en_data, lang_data)
       IN  /\ missing_keys # <<>>
           /\ fs' = [fs EXCEPT ![lang_code][filename] =
                        File(DumpJson(file_path.text, missing_keys))]
           /\ dumped' = [dumped EXCEPT ![lang_code][filename] = missing_keys]
           /\ added' = [added EXCEPT ![lang_code][filename] = Len(missing_keys)]
           /\ total_added' = total_added + Len(missing_keys)
    /\ dirIdx' = dirIdx + 1
    /\ outcome' = [outcome EXCEPT ![lang_code][filename] = "written"]
    /\ opens' = Opened(Opened(Opened(opens, lang_code, filename, "r"),
                              lang_code, filename, "r"), lang_code, filename, "w")
    /\ UNCHANGED <<script, run, pc, fileIdx, en_data, source, totals, exitStatus, grand_total, success_count, error_count, returned, fsInit, fs0>>

\* lines 100-111 with missing keys: update, dump_json, count
LoopMergeWrite ==
    /\ InLoop
    /\ ~IsSkippedDir(lang_code)
    /\ file_path.exists
    /\ JsonLoad(file_path.text).ok
    /\ LET lang_data == JsonLoad(file_path.text).map
           missing_keys == MissingKeys(en_data, lang_data)
       IN  /\ missing_keys # <<>>
           /\ fs' = [fs EXCEPT ![lang_code][filename] =
                        File(DumpJson(file_path.text, DictUpdate(lang_data, missing_keys)))]
           /\ dumped' = [dumped EXCEPT ![lang_code][filename] =
                            DictUpdate(lang_data, missing_keys)]
           /\ added' = [added EXCEPT ![lang_code][filename] = Len(missing_keys)]
           /\ total_added' = total_added + Len(missing_keys)
    /\ dirIdx' = dirIdx + 1
    /\ outcome' = [outcome EXCEPT ![lang_code][filename] = "written"]
    /\ opens' = Opened(Opened(Opened(opens, lang_code, filename, "r"),
                              lang_code, filename, "r"), lang_code, filename, "w")
    /\ UNCHANGED <<script, run, pc, fileIdx, en_data, source, totals, exitStatus, grand_total, success_count, error_count, returned, fsInit, fs0>>

\* line 115: the loop is over, return total_added
SyncFileReturn ==
    /\ script = "sync_all_keys" /\ pc = "loop"
    /\ dirIdx > Len(LangDirs)
    /\ ReturnToMain(total_added)
    /\ UNCHANGED <<fs, script, run, dirIdx, en_data, source, total_added, exitStatus,
                   grand_total, success_count, error_count, returned, fsInit, fs0, outcome, added, dumped, opens>>

\* lines 125-129: the totals are printed, the process ends with status 0
MainReport ==
    /\ script = "sync_all_keys" /\ pc = "report"
    /\ pc' = "idle"
    /\ exitStatus' = 0
    /\ grand_total' = totals["common.json"] + totals["settings.json"]
    /\ UNCHANGED <<fs, script, run, fileIdx, dirIdx, en_data, source, total_added, totals,
                   success_count, error_count, returned, fsInit, fs0, outcome, added, dumped, opens>>

(***************************************************************************)
(* add_missing_keys.py                                                      *)
(***************************************************************************)
\* lines 13-100: the keys to fill in, here one of the en keys and one that
\* en/common.json does not hold
TARGET_KEYS == << <<"b">>, <<"c">> >>

\* (variant of line 121 that leaves out the keys en/common.json lacks)
RECURSIVE SourceOfPresentOnly(_, _)
SourceOfPresentOnly(en, keys) ==
    IF Len(keys) = 0 THEN <<>>
    ELSE IF HasKey(en, keys[1])
    THEN DictUpdate(<<[k |-> keys[1], v |-> Get(en, keys[1])]>>,
                    SourceOfPresentOnly(en, Tail(keys)))
    ELSE SourceOfPresentOnly(en, Tail(keys))

\* line 121: {k: en_data.get(k, "") for k in TARGET_KEYS}
RECURSIVE SourceOf(_, _)
SourceOf(en, keys) ==
    IF Len(keys) = 0 THEN <<>>
    ELSE DictUpdate(
           <<[k |-> keys[1],
              v |-> IF HasKey(en, keys[1]) THEN Get(en, keys[1]) ELSE Str(<<>>)]>>,
           SourceOf(en, Tail(keys)))

\* lines 133-137: [data, added] after the loop over source.items()
RECURSIVE FillIn(_, _, _)
FillIn(data, src, n) ==
    IF Len(src) = 0 THEN [data |-> data, added |-> n]
    ELSE IF HasKey(data, src[1].k) THEN FillIn(data, Tail(src), n)
    ELSE FillIn(DictSet(data, src[1].k, src[1].v), Tail(src), n + 1)

common_path == fs[lang_code]["common.json"]

\* main starts (lines 114-116)
AmkMain ==
    /\ StartProcess("add_missing_keys")
    /\ fileIdx' = 1

\* lines 117-118: raise FileNotFoundError
AmkNoReference ==
    /\ script = "add_missing_keys" /\ pc = "call"
    /\ ~fs[EN]["common.json"].exists
    /\ Crash
    /\ UNCHANGED <<fs, script, run, fileIdx, dirIdx, en_data, source, total_added, totals,
                   grand_total, success_count, error_count, returned, fsInit, fs0, outcome, added, dumped, opens>>

\* line 120: json.load raises on en/common.json
AmkReferenceError ==
    /\ script = "add_missing_keys" /\ pc = "call"
    /\ fs[EN]["common.json"].exists
    /\ ~JsonLoad(fs[EN]["common.json"].text).ok
    /\ Crash
    /\ opens' = Opened(opens, EN, "common.json", "r")
    /\ UNCHANGED <<fs, script, run, fileIdx, dirIdx, en_data, source, total_added, totals,
                   grand_total, success_count, error_count, returned, fsInit, fs0, outcome, added, dumped>>

\* lines 120-123: en_data and source are built, the loop starts
AmkLoadReference ==
    /\ script = "add_missing_keys" /\ pc = "call"
    /\ fs[EN]["common.json"].exists
    /\ JsonLoad(fs[EN]["common.json"].text).ok
    /\ en_data' = JsonLoad(fs[EN]["common.json"].text).map
    /\ source' = SourceOf(en_data', TARGET_KEYS)
    /\ dirIdx' = 1
    /\ pc' = "loop"
    /\ opens' = Opened(opens, EN, "common.json", "r")
    /\ UNCHANGED <<fs, script, run, fileIdx, total_added, totals, exitStatus, grand_total, success_count, error_count, returned, fsInit, fs0,
                   outcome, added, dumped>>

AmkInLoop == script = "add_missing_keys" /\ pc = "loop" /\ dirIdx <= Len(LangDirs)

\* lines 124-126
AmkSkipEn ==
    /\ AmkInLoop
    /\ lang_code = EN
    /\ dirIdx' = dirIdx + 1
    /\ UNCHANGED <<fs, script, run, pc, fileIdx, en_data, source, total_added, totals,
                   exitStatus, grand_total, success_count, error_count, returned, fsInit, fs0, outcome, added, dumped, opens>>

\* lines 127-130
AmkSkipMissing ==
    /\ AmkInLoop
    /\ lang_code # EN
    /\ ~common_path.exists
    /\ dirIdx' = dirIdx + 1
    /\ outcome' = [outcome EXCEPT ![lang_code]["common.json"] = "skipped"]
    /\ UNCHANGED <<fs, script, run, pc, fileIdx, en_data, source, total_added, totals,
                   exitStatus, grand_total, success_count, error_count, returned, fsInit, fs0, added, dumped, opens>>

\* line 132: json.load raises; nothing catches it
AmkLoadError ==
    /\ AmkInLoop
    /\ lang_code # EN
    /\ common_path.exists
    /\ ~JsonLoad(common_path.text).ok
    /\ Crash
    /\ outcome' = [outcome EXCEPT ![lang_code]["common.json"] = "load_error"]
    /\ opens' = Opened(opens, lang_code, "common.json", "r")
    /\ UNCHANGED <<fs, script, run, fileIdx, dirIdx, en_data, source, total_added, totals,
                   grand_total, success_count, error_count, returned, fsInit, fs0, added, dumped>>

\* lines 132-143 with added = 0
AmkNoChange ==
    /\ AmkInLoop
    /\ lang_code # EN
    /\ common_path.exists
    /\ JsonLoad(common_path.text).ok
    /\ FillIn(JsonLoad(common_path.text).map, source, 0).added = 0
    /\ dirIdx' = dirIdx + 1
    /\ outcome' = [outcome EXCEPT ![lang_code]["common.json"] = "no_change"]
    /\ opens' = Opened(opens, lang_code, "common.json", "r")
    /\ UNCHANGED <<fs, script, run, pc, fileIdx, en_data, source, total_added, totals,
                   exitStatus, grand_total, success_count, error_count, returned, fsInit, fs0, added, dumped>>

\* lines 132-141 with added > 0
AmkAddWrite ==
    /\ AmkInLoop
    /\ lang_code # EN
    /\ common_path.exists
    /\ JsonLoad(common_path.text).ok
    /\ LET filled == FillIn(JsonLoad(common_path.text).map, source, 0)
       IN  /\ filled.added > 0
           /\ fs' = [fs EXCEPT ![lang_code]["common.json"] = File(DumpJsonPlain(filled.data))]
           /\ dumped' = [dumped EXCEPT ![lang_code]["common.json"] = filled.data]
           /\ added' = [added EXCEPT ![lang_code]["common.json"] = filled.added]
    /\ dirIdx' = dirIdx + 1
    /\ outcome' = [outcome EXCEPT ![lang_code]["common.json"] = "written"]
    /\ opens' = Opened(Opened(opens, lang_code, "common.json", "r"),
                       lang_code, "common.json", "w")
    /\ UNCHANGED <<script, run, pc, fileIdx, en_data, source, total_added, totals,
                   exitStatus, grand_total, success_count, error_count, returned, fsInit, fs0>>

\* the loop is over: main returns, the process ends with status 0
AmkFinish ==
    /\ script = "add_missing_keys" /\ pc = "loop"
    /\ dirIdx > Len(LangDirs)
    /\ pc' = "idle"
    /\ exitStatus' = 0
    /\ UNCHANGED <<fs, script, run, fileIdx, dirIdx, en_data, source, total_added, totals,
                   grand_total, success_count, error_count, returned, fsInit, fs0, outcome, added, dumped, opens>>

Next ==
    \/ Main
    \/ SyncFileNoReference
    \/ SyncFileLoadReference
    \/ SyncFileReferenceError
    \/ LoopSkipDir
    \/ LoopSkipMissing
    \/ LoopLoadError
    \/ LoopNoChange
    \/ LoopMergeWrite
    \/ SyncFileReturn
    \/ MainReport

Spec == Init /\ [][Next]_vars
\* either script is run, one run after the other
NextScripts ==
    \/ Next
    \/ AmkMain
    \/ AmkNoReference
    \/ AmkReferenceError
    \/ AmkLoadReference
    \/ AmkSkipEn
    \/ AmkSkipMissing
    \/ AmkLoadError
    \/ AmkNoChange
    \/ AmkAddWrite
    \/ AmkFinish

SpecScripts == Init /\ [][NextScripts]_vars

(***************************************************************************)
(* add_ai_keys.py                                                           *)
(***************************************************************************)
\* lines 10-19: the English values, here two keys in place of the eight
en_keys == <<Entry("a", Str(<<"S">>)), Entry("b", Str(Placeholder))>>

\* lines 34-225: the dictionaries of de and fr, in place of the nineteen
translations ==
    (DE :> <<Entry("a", Str(<<"D">>)), Entry("b", Str(Placeholder))>>)
    @@ (FR :> <<Entry("a", Str(<<"F">>)), Entry("b", Str(Placeholder))>>)

\* line 234: translations.get(lang_code, en_keys)
LangTranslations(code) ==
    IF code \in DOMAIN translations THEN translations[code] ELSE en_keys

\* lines 237-241: [data, added_count] after the loop over the items
RECURSIVE AddMissing(_, _, _)
AddMissing(data, items, added_count) ==
    IF Len(items) = 0 THEN [data |-> data, added_count |-> added_count]
    ELSE IF HasKey(data, items[1].k) THEN AddMissing(data, Tail(items), added_count)
    ELSE AddMissing(DictSet(data, items[1].k, items[1].v), Tail(items), added_count + 1)

\* line 258: d.is_dir() and not d.name.startswith('.')
IsLangDir(name) == IsDir(name) /\ Head(name) # "."

\* line 258
lang_dirs == SelectSeq(SortedEntries, IsLangDir)

\* lines 266-268
lang_dir == lang_dirs[dirIdx]
ai_file_path == fs[lang_dir]["common.json"]

\* what add_keys_to_file returns: (True, added_count) or (False, str(e))
ReturnedOk(n) == [called |-> TRUE, success |-> TRUE, added_count |-> n, message |-> ""]
ReturnedError(e) == [called |-> TRUE, success |-> FALSE, added_count |-> 0, message |-> e]

\* main starts (line 255)
AiMain ==
    /\ StartProcess("add_ai_keys")
    /\ fileIdx' = 1

\* lines 257-265: the directories are listed, the loop starts
AiListDirs ==
    /\ script = "add_ai_keys" /\ pc = "call"
    /\ dirIdx' = 1
    /\ pc' = "loop"
    /\ UNCHANGED <<fs, script, run, fileIdx, en_data, source, total_added, totals,
                   grand_total, success_count, error_count, returned, exitStatus,
                   fsInit, fs0, outcome, added, dumped, opens>>

AiInLoop == script = "add_ai_keys" /\ pc = "loop" /\ dirIdx <= Len(lang_dirs)

\* lines 283-289 after a failed call: error_count += 1
AiCountError(e) ==
    /\ returned' = [returned EXCEPT ![lang_dir] = ReturnedError(e)]
    /\ error_count' = error_count + 1
    /\ dirIdx' = dirIdx + 1
    /\ UNCHANGED <<script, run, pc, fileIdx, en_data, source, total_added, totals,
                   grand_total, success_count, exitStatus, fsInit, fs0, added, dumped>>

\* (variant of lines 252-253 that lets the exception through)
AiParseErrorRaise ==
    /\ AiInLoop
    /\ lang_dir \notin {EN, TR}
    /\ ai_file_path.exists
    /\ ~JsonLoad(ai_file_path.text).ok
    /\ Crash
    /\ outcome' = [outcome EXCEPT ![lang_dir]["common.json"] = "load_error"]
    /\ opens' = Opened(opens, lang_dir, "common.json", "r")
    /\ UNCHANGED <<fs, script, run, fileIdx, dirIdx, en_data, source, total_added, totals,
                   grand_total, success_count, error_count, returned, fsInit, fs0,
                   added, dumped>>

\* lines 270-273
AiSkipReference ==
    /\ AiInLoop
    /\ lang_dir \in {EN, TR}
    /\ dirIdx' = dirIdx + 1
    /\ UNCHANGED <<fs, script, run, pc, fileIdx, en_data, source, total_added, totals,
                   grand_total, success_count, error_count, returned, exitStatus,
                   fsInit, fs0, outcome, added, dumped, opens>>

\* lines 275-277
AiSkipMissing ==
    /\ AiInLoop
    /\ lang_dir \notin {EN, TR}
    /\ ~ai_file_path.exists
    /\ dirIdx' = dirIdx + 1
    /\ outcome' = [outcome EXCEPT ![lang_dir]["common.json"] = "skipped"]
    /\ UNCHANGED <<fs, script, run, pc, fileIdx, en_data, source, total_added, totals,
                   grand_total, success_count, error_count, returned, exitStatus,
                   fsInit, fs0, added, dumped, opens>>

\* lines 230-231: open or read raises (OSError, UnicodeDecodeError), caught
\* at line 252
AiReadError ==
    /\ AiInLoop
    /\ lang_dir \notin {EN, TR}
    /\ ai_file_path.exists
    /\ outcome' = [outcome EXCEPT ![lang_dir]["common.json"] = "read_error"]
    /\ opens' = Opened(opens, lang_dir, "common.json", "r")
    /\ AiCountError("OSError")
    /\ UNCHANGED fs

\* line 231: json.load raises, caught at line 252
AiParseError ==
    /\ AiInLoop
    /\ lang_dir \notin {EN, TR}
    /\ ai_file_path.exists
    /\ ~JsonLoad(ai_file_path.text).ok
    /\ outcome' = [outcome EXCEPT ![lang_dir]["common.json"] = "load_error"]
    /\ opens' = Opened(opens, lang_dir, "common.json", "r")
    /\ AiCountError("JSONDecodeError")
    /\ UNCHANGED fs

\* lines 230-241, 249-250 with added_count = 0, and lines 281-286
AiNoChange ==
    /\ AiInLoop
    /\ lang_dir \notin {EN, TR}
    /\ ai_file_path.exists
    /\ JsonLoad(ai_file_path.text).ok
    /\ AddMissing(JsonLoad(ai_file_path.text).map, LangTranslations(lang_dir), 0).added_count = 0
    /\ dirIdx' = dirIdx + 1
    /\ outcome' = [outcome EXCEPT ![lang_dir]["common.json"] = "no_change"]
    /\ opens' = Opened(opens, lang_dir, "common.json", "r")
    /\ returned' = [returned EXCEPT ![lang_dir] = ReturnedOk(0)]
    /\ UNCHANGED <<fs, script, run, pc, fileIdx, en_data, source, total_added, totals,
                   grand_total, success_count, error_count, exitStatus, fsInit, fs0,
                   added, dumped>>

\* lines 230-248 with added_count > 0, and lines 281-284: the file is
\* written without a final newline, success_count += 1
AiAddWrite ==
    /\ AiInLoop
    /\ lang_dir \notin {EN, TR}
    /\ ai_file_path.exists
    /\ JsonLoad(ai_file_path.text).ok
    /\ LET r == AddMissing(JsonLoad(ai_file_path.text).map, LangTranslations(lang_dir), 0)
       IN  /\ r.added_count > 0
           /\ fs' = [fs EXCEPT ![lang_dir]["common.json"] = File(JsonDumps(r.data))]
           /\ dumped' = [dumped EXCEPT ![lang_dir]["common.json"] = r.data]
           /\ added' = [added EXCEPT ![lang_dir]["common.json"] = r.added_count]
           /\ returned' = [returned EXCEPT ![lang_dir] = ReturnedOk(r.added_count)]
    /\ success_count' = success_count + 1
    /\ dirIdx' = dirIdx + 1
    /\ outcome' = [outcome EXCEPT ![lang_dir]["common.json"] = "written"]
    /\ opens' = Opened(Opened(opens, lang_dir, "common.json", "r"),
                       lang_dir, "common.json", "w")
    /\ UNCHANGED <<script, run, pc, fileIdx, en_data, source, total_added, totals,
                   grand_total, error_count, exitStatus, fsInit, fs0>>

\* lines 246-247 with added_count > 0: open(file_path, 'w') raises and the
\* file is as it was, or write raises after open has emptied the file;
\* caught at line 252
AiWriteError ==
    /\ AiInLoop
    /\ lang_dir \notin {EN, TR}
    /\ ai_file_path.exists
    /\ JsonLoad(ai_file_path.text).ok
    /\ AddMissing(JsonLoad(ai_file_path.text).map, LangTranslations(lang_dir), 0).added_count > 0
    /\ \E truncated \in BOOLEAN :
          fs' = IF truncated THEN [fs EXCEPT ![lang_dir]["common.json"] = File(<<>>)]
                ELSE fs
    /\ outcome' = [outcome EXCEPT ![lang_dir]["common.json"] = "write_error"]
    /\ opens' = Opened(Opened(opens, lang_dir, "common.json", "r"),
                       lang_dir, "common.json", "w")
    /\ AiCountError("OSError")

\* lines 291-294: the loop is over, the counts are printed, status 0
AiFinish ==
    /\ script = "add_ai_keys" /\ pc = "loop"
    /\ dirIdx > Len(lang_dirs)
    /\ pc' = "idle"
    /\ exitStatus' = 0
    /\ UNCHANGED <<fs, script, run, fileIdx, dirIdx, en_data, source, total_added, totals,
                   grand_total, success_count, error_count, returned, fsInit, fs0,
                   outcome, added, dumped, opens>>

\* add_ai_keys.py is run, one run after the other
NextAi ==
    \/ AiMain
    \/ AiListDirs
    \/ AiSkipReference
    \/ AiSkipMissing
    \/ AiReadError
    \/ AiParseError
    \/ AiNoChange
    \/ AiAddWrite
    \/ AiWriteError
    \/ AiFinish

\* add_ai_keys.py names no file but common.json (line 268): the directories
\* hold no settings.json here
InitAi ==
    /\ Init
    /\ \A d \in DirNames : ~fs[d]["settings.json"].exists

SpecAi == InitAi /\ [][NextAi]_vars
(***************************************************************************)
(* Properties.                                                              *)
(***************************************************************************)
Ok(file) == file.exists /\ JsonLoad(file.text).ok
MapOf(file) == JsonLoad(file.text).map
ReferenceOrHidden(d) == d = EN \/ Head(d) = "."
Targets == {d \in DirNames : ~ReferenceOrHidden(d)}
Finished == pc = "idle" /\ run >= 1
NoOpens == [r |-> 0, w |-> 0]
Pos(m, k) == CHOOSE i \in 1..Len(m) : m[i].k = k
Lines(text) == {SplitLines(text)[i] : i \in 1..Len(SplitLines(text))}
ItemLines(text) == {l \in Lines(text) : Contains(l, QUOTE)}
TabIndented(text) == \E l \in ItemLines(text) : l[1] = TAB
SpaceIndented(text) == \E l \in ItemLines(text) : l[1] = SP

\* C1: a run of sync_all_keys or of add_missing_keys keeps every key a file
\* held when the run started, with the value it had then.
C1_NonDestructive ==
    \A d \in DirNames, f \in FileSet :
        (fs[d][f] # fs0[d][f] /\ Ok(fs0[d][f])) =>
            LET before == MapOf(fs0[d][f])
                after == MapOf(fs[d][f])
            IN  /\ Ok(fs[d][f])
                /\ \A i \in 1..Len(before) :
                      /\ HasKey(after, before[i].k)
                      /\ Get(after, before[i].k) = before[i].v

\* sync_file(FileNames[i]) of the current or last run of sync_all_keys has returned
Returned(i) ==
    /\ script = "sync_all_keys"
    /\ \/ pc \in {"call", "loop"} /\ fileIdx > i
       \/ pc = "report"
       \/ Finished /\ exitStatus = 0

\* C2: once sync_file has returned for a file name, every target locale that
\* has the file holds every key of the en file.
C2_Superset ==
    \A i \in 1..Len(FileNames), d \in Targets :
        (Returned(i) /\ fs[d][FileNames[i]].exists /\ fs[EN][FileNames[i]].exists) =>
            /\ Ok(fs[EN][FileNames[i]])
            /\ Ok(fs[d][FileNames[i]])
            /\ Keys(MapOf(fs[EN][FileNames[i]])) \subseteq Keys(MapOf(fs[d][FileNames[i]]))

\* C3: a file that sync_all_keys rewrites keeps its indentation: tabs (one per
\* item line) if it was indented with tabs, spaces if it was indented with spaces.
C3_StylePreserved ==
    \A d \in Targets, f \in FileSet :
        (script = "sync_all_keys" /\ outcome[d][f] = "written") =>
            /\ TabIndented(fs0[d][f].text) =>
                  \A l \in ItemLines(fs[d][f].text) : l[1] = TAB /\ l[2] = QUOTE
            /\ (SpaceIndented(fs0[d][f].text) /\ ~Contains(fs0[d][f].text, TAB)) =>
                  \A l \in ItemLines(fs[d][f].text) : l[1] = SP /\ ~Contains(l, TAB)

\* C4: when the en files are well-formed, a run of sync_all_keys ends with every
\* well-formed target file loaded and holding the en keys, whatever other
\* target files are malformed.
C4_MalformedIsolated ==
    (script = "sync_all_keys" /\ Finished /\ \A f \in FileSet : Ok(fs0[EN][f])) =>
        \A d \in Targets, f \in FileSet :
            Ok(fs0[d][f]) =>
                /\ outcome[d][f] \in {"no_change", "written"}
                /\ Keys(MapOf(fs[EN][f])) \subseteq Keys(MapOf(fs[d][f]))

\* json.load raised in this run: a file it opened held malformed text (a file
\* is loaded before the run writes it)
LoadRaised ==
    \E d \in DirNames, f \in FileSet : opens[d][f].r > 0 /\ ~JsonLoad(fs0[d][f].text).ok

C6_Idempotent ==
    (script = "sync_all_keys" /\ run >= 2) =>
        /\ fs = fs0
        /\ added = PerFile(0)
    /\ dumped = PerFile(<<>>)
        /\ total_added = 0
        /\ totals = [f \in FileSet |-> 0]
    /\ grand_total = 0

\* the second run ended normally and loaded a file the first run had rewritten
C6_Witness ==
    /\ script = "sync_all_keys" /\ run = 2 /\ Finished /\ exitStatus = 0
    /\ \E d \in Targets, f \in FileSet :
          fs0[d][f] # fsInit[d][f] /\ outcome[d][f] = "no_change"

\* C7: a target file that holds every key of the en file is not opened for
\* writing, keeps its text and has count 0 (stated contrapositively: a file
\* whose text changed, that was opened for writing or that has a count lacked
\* a key of the en file).
C7_CompleteFileUntouched ==
    \A d \in Targets, f \in FileSet :
        (/\ script = "sync_all_keys"
         /\ fs[d][f] # fs0[d][f] \/ opens[d][f].w # 0 \/ added[d][f] # 0) =>
            ~(/\ Ok(fs0[d][f]) /\ Ok(fs0[EN][f])
              /\ Keys(MapOf(fs0[EN][f])) \subseteq Keys(MapOf(fs0[d][f])))

\* a complete tab-indented file with trailing whitespace was loaded and left alone
C7_Witness ==
    \E d \in Targets :
        /\ script = "sync_all_keys"
        /\ outcome[d]["common.json"] = "no_change"
        /\ fs[d]["common.json"].text = TabComplete
        /\ Len(en_data) > 0

\* C8: no file of the en directory or of a hidden directory is loaded as a
\* target or written by sync_all_keys: such files stay as they were.
C8_ReferenceAndHiddenUntouched ==
    \A d \in DirNames, f \in FileSet :
        ReferenceOrHidden(d) =>
            /\ fs[d][f] = fsInit[d][f]
            /\ opens[d][f].w = 0
            /\ outcome[d][f] = "unprocessed"
            /\ d # EN => opens[d][f].r = 0

\* sync_file has gone through common.json and added keys to a target, while
\* the hidden directory holds a common.json without the en keys
C8_Witness ==
    /\ script = "sync_all_keys" /\ Returned(1)
    /\ \E d \in Targets : outcome[d]["common.json"] = "written"
    /\ Ok(fs[HIDDEN]["common.json"]) /\ Ok(fs[EN]["common.json"])
    /\ ~(Keys(MapOf(fs[EN]["common.json"])) \subseteq Keys(MapOf(fs[HIDDEN]["common.json"])))

\* C9: a target directory without the file is skipped: the file is not
\* created, nothing is counted for it, and the run goes on to the other
\* locales and file names.
C9_MissingTargetSkipped ==
    script = "sync_all_keys" =>
        /\ \A d \in Targets, f \in FileSet :
              /\ ~fs0[d][f].exists => (~fs[d][f].exists /\ added[d][f] = 0 /\ opens[d][f] = NoOpens)
              /\ outcome[d][f] = "skipped" => ~fs0[d][f].exists
        /\ (Finished /\ exitStatus = 0) =>
              \A d \in Targets, f \in FileSet :
                  fs0[EN][f].exists =>
                      IF fs0[d][f].exists
                      THEN outcome[d][f] \in {"no_change", "written"}
                      ELSE outcome[d][f] = "skipped"

\* de/common.json is absent and was skipped; fr/common.json and a settings.json got keys
C9_Witness ==
    /\ script = "sync_all_keys" /\ Finished /\ exitStatus = 0
    /\ outcome[DE]["common.json"] = "skipped"
    /\ outcome[FR]["common.json"] = "written"
    /\ \E d \in Targets : outcome[d]["settings.json"] = "written"

MissingCount(d, f) ==
    IF outcome[d][f] \in {"no_change", "written"}
    THEN Cardinality(Keys(MapOf(fs0[EN][f])) \ Keys(MapOf(fs0[d][f])))
    ELSE 0

RECURSIVE SumMissing(_, _)
SumMissing(dirs, f) ==
    IF Len(dirs) = 0 THEN 0
    ELSE (IF ReferenceOrHidden(dirs[1]) THEN 0 ELSE MissingCount(dirs[1], f))
         + SumMissing(Tail(dirs), f)

\* C11: the count of sync_file for a file name is the sum, over the target
\* files it loaded, of the en keys each lacked before the run, skipped and
\* failed files counting 0; the total main prints is the sum of the two counts.
C11_CountIsSumOfMissing ==
    script = "sync_all_keys" =>
        /\ pc = "loop" => total_added = SumMissing(LangDirs, filename)
        /\ \A i \in 1..Len(FileNames) :
              Returned(i) => totals[FileNames[i]] = SumMissing(LangDirs, FileNames[i])
        /\ \A d \in Targets, f \in FileSet :
              added[d][f] = MissingCount(d, f)
        /\ (Finished /\ exitStatus = 0) =>
              grand_total = SumMissing(LangDirs, "common.json")
                            + SumMissing(LangDirs, "settings.json")

\* a run ended after counting keys of two locales for common.json, with one
\* settings.json skipped and keys counted for the other
C11_Witness ==
    /\ script = "sync_all_keys" /\ Finished /\ exitStatus = 0
    /\ added[DE]["common.json"] = 2 /\ added[FR]["common.json"] = 1
    /\ totals["common.json"] = 3
    /\ outcome[DE]["settings.json"] = "skipped"
    /\ added[FR]["settings.json"] = 1
    /\ grand_total = 4
\* the en file of f had a key that the file of d lacked when the run started
LackedKey(d, f) ==
    /\ Ok(fs0[EN][f]) /\ Ok(fs0[d][f])
    /\ Keys(MapOf(fs0[EN][f])) \ Keys(MapOf(fs0[d][f])) # {}

\* the life of a target file in one run, with reads the number of times a
\* file that is rewritten is opened for reading
Lifecycle(reads) ==
    \A d \in Targets, f \in FileSet :
        script = "sync_all_keys" =>
            /\ opens[d][f].w <= 1
            /\ outcome[d][f] \in {"unprocessed", "skipped"} =>
                  opens[d][f] = NoOpens /\ fs[d][f] = fs0[d][f]
            /\ outcome[d][f] = "load_error" =>
                  /\ opens[d][f] = [r |-> 1, w |-> 0]
                  /\ fs[d][f] = fs0[d][f]
                  /\ fs0[d][f].exists /\ ~Ok(fs0[d][f])
            /\ outcome[d][f] = "no_change" =>
                  /\ opens[d][f] = [r |-> 1, w |-> 0]
                  /\ fs[d][f] = fs0[d][f]
                  /\ Ok(fs0[d][f]) /\ ~LackedKey(d, f)
            /\ outcome[d][f] = "written" =>
                  /\ opens[d][f] = [r |-> reads, w |-> 1]
                  /\ LackedKey(d, f)

\* C12 as stated: in a run of sync_all_keys a target file is read once,
\* written at most once and only after a load that found a missing key, and
\* a file that fails to load is not read again and not written.
C12_ReadOnce == Lifecycle(1)

\* C12 as amended: the same, but a file that is rewritten is opened for
\* reading twice, by load_json and again by dump_json.
C12_LoadedOnceWrittenAtMostOnce == Lifecycle(2)

\* in one run a file was rewritten and the next file failed to load
C12_Witness ==
    /\ script = "sync_all_keys" /\ Finished /\ exitStatus = 1
    /\ outcome[DE]["common.json"] = "written"
    /\ outcome[FR]["common.json"] = "load_error"
TargetKeySet == {TARGET_KEYS[i] : i \in 1..Len(TARGET_KEYS)}

\* the value add_missing_keys gives to a key it adds
Placed(k) ==
    IF HasKey(MapOf(fs0[EN]["common.json"]), k)
    THEN Get(MapOf(fs0[EN]["common.json"]), k)
    ELSE Str(<<>>)

\* C13: add_missing_keys never writes a file of en; a common.json it changes
\* gets exactly the keys of TARGET_KEYS it lacked, each with the value of
\* en/common.json or the empty string when en has no such key; and when main
\* has returned, every directory but en that has a common.json holds its
\* original keys together with all of TARGET_KEYS.
C13_TargetKeysFilled ==
    script = "add_missing_keys" =>
        /\ fs[EN] = fs0[EN]
        /\ \A f \in FileSet : opens[EN][f].w = 0
        /\ \A d \in DirNames \ {EN} :
              /\ fs[d]["common.json"] # fs0[d]["common.json"] =>
                    /\ Ok(fs0[d]["common.json"]) /\ Ok(fs[d]["common.json"])
                    /\ LET orig == MapOf(fs0[d]["common.json"])
                           new  == MapOf(fs[d]["common.json"])
                       IN  /\ Keys(new) = Keys(orig) \cup TargetKeySet
                           /\ \A k \in Keys(new) \ Keys(orig) : Get(new, k) = Placed(k)
              /\ (Finished /\ exitStatus = 0 /\ fs0[d]["common.json"].exists) =>
                    /\ Ok(fs0[d]["common.json"]) /\ Ok(fs[d]["common.json"])
                    /\ Keys(MapOf(fs[d]["common.json"]))
                          = Keys(MapOf(fs0[d]["common.json"])) \cup TargetKeySet

\* main has returned after it added to de/common.json a key with the value of
\* en and a key en does not have, and filled the hidden directory's file too
C13_Witness ==
    /\ script = "add_missing_keys" /\ Finished /\ exitStatus = 0
    /\ Ok(fs0[DE]["common.json"])
    /\ Keys(MapOf(fs0[DE]["common.json"])) \cap TargetKeySet = {}
    /\ HasKey(MapOf(fs0[EN]["common.json"]), <<"b">>)
    /\ Get(MapOf(fs[DE]["common.json"]), <<"b">>) = Get(MapOf(fs0[EN]["common.json"]), <<"b">>)
    /\ Get(MapOf(fs[DE]["common.json"]), <<"c">>) = Str(<<>>)
    /\ fs[HIDDEN]["common.json"] # fs0[HIDDEN]["common.json"]
\* the directories whose common.json add_keys_to_file failed on in this run
AiFailures == {"read_error", "load_error", "write_error"}
AiFailed == {d \in DirNames : outcome[d]["common.json"] \in AiFailures}

\* C14: in add_ai_keys a failure to read, parse or write a common.json is
\* returned as (False, message) and counted once in error_count, the run
\* never ends before the last directory and ends with status 0, every
\* directory after a failed one is processed, and no file of en or tr is
\* opened or changed.
C14_FailureIsolated ==
    script = "add_ai_keys" =>
        /\ \A d \in {EN, TR}, f \in FileSet :
              fs[d][f] = fs0[d][f] /\ opens[d][f] = NoOpens
        /\ \A d \in {EN, TR} : returned[d] = NotCalled
        /\ \A d \in DirNames :
              /\ d \in AiFailed <=>
                    (returned[d].called /\ ~returned[d].success /\ returned[d].message # "")
              /\ (fs0[d]["common.json"].exists /\ ~Ok(fs0[d]["common.json"])
                  /\ outcome[d]["common.json"] # "unprocessed") => d \in AiFailed
              /\ outcome[d]["common.json"] \in {"read_error", "load_error"} =>
                    fs[d]["common.json"] = fs0[d]["common.json"]
        /\ error_count = Cardinality(AiFailed)
        /\ success_count = Cardinality({d \in DirNames : outcome[d]["common.json"] = "written"})
        /\ pc = "idle" =>
              /\ exitStatus = 0
              /\ dirIdx > Len(lang_dirs)
              /\ \A i \in 1..Len(lang_dirs) :
                    lang_dirs[i] \notin {EN, TR} =>
                        outcome[lang_dirs[i]]["common.json"] # "unprocessed"
        /\ pc = "loop" =>
              \A i \in 1..Len(lang_dirs) :
                  (i < dirIdx /\ lang_dirs[i] \notin {EN, TR}) =>
                      outcome[lang_dirs[i]]["common.json"] # "unprocessed"

\* de/common.json failed to parse, fr/common.json was filled afterwards, and
\* the run ended with one error and one success
C14_Witness ==
    /\ script = "add_ai_keys" /\ Finished /\ exitStatus = 0
    /\ outcome[DE]["common.json"] = "load_error"
    /\ ~returned[DE].success /\ returned[DE].message = "JSONDecodeError"
    /\ outcome[FR]["common.json"] = "written"
    /\ returned[FR].success /\ returned[FR].added_count = 2
    /\ error_count = 1 /\ success_count = 1
    /\ fs[TR]["common.json"].exists
====
